---- MODULE Spec2Model ----
(***************************************************************************)
(* Model of the crash-triage pipeline of whvp                               *)
(* (whvp-py/whvp/scripts/triage.py, function cli).                          *)
(*                                                                         *)
(* One triage run is one execution of cli(): setup, the coverage-gathering *)
(* loop (cache lookup, or the two-phase replay on the tracer followed by   *)
(* trace.save and a read-back), the fingerprinting loop and the            *)
(* materialization of the buckets.  The output directory (trace artifacts  *)
(* and bucket tree) persists from one run to the next; everything else is  *)
(* rebuilt by each run.  cli() holds no try/except: an exception raised by *)
(* any call ends the run at that point.                                    *)
(***************************************************************************)
EXTENDS Integers, Sequences, FiniteSets, TLC

\* ------------------------------------------------------------------ bounds
NumFiles == 2      \* crash files (<id>.bin with its <id>.json) in the crashes directory
MaxCov == 2        \* longest coverage sequence a replay run returns
MaxLimit == 2      \* largest --limit a run is started with
MaxRuns == 2       \* triage runs over the same crashes and output directories
FpMaxCov == 2      \* longest cached coverage sequence fingerprinted under SpecFP
FpMaxLimit == 2    \* largest --limit under SpecFP

\* ------------------------------------------------------------ input values
Files == 1..NumFiles                 \* os.listdir order, the same in every run
Addrs == {1, 255}                    \* instruction addresses a cached trace can hold
\* instruction addresses a replay run returns under Spec: replays differ by the
\* length of their coverage; SpecFP varies the addresses as well
ReplayAddrs == {255}
Limits == 0..MaxLimit
\* sequences of (address, context) pairs, as trace.get_coverage() returns
CovSeqsOver(addrs, max) ==
    UNION {[1..n -> {<<a, "trace_ctx">> : a \in addrs}] : n \in 0..max}
CovSeqs == CovSeqsOver(ReplayAddrs, MaxCov)

\* what is at coverage_path: no file, a file whose write did not complete, or
\* [state |-> "complete", coverage |-> ...]
Absent == [state |-> "absent", coverage |-> <<>>]
Partial == [state |-> "partial", coverage |-> <<>>]
NoCov == [state |-> "unset", coverage |-> <<>>]     \* f not yet a key of coverages
NoTrace == [state |-> "none", coverage |-> <<>>]
NoError == [kind |-> "none", f |-> 0, phase |-> "none"]

\* <id>.bin and <id>.json of a crash: contents and the metadata's "input" field
ReplayData(f) == <<"bin", f>>
MetaData(f) == <<"json", f>>
InputOffset(f) == <<"input", f>>

\* snapshot.get_params(): the backend's baseline defaults
BaseParams ==
    [limit |-> 0, coverage |-> "base", save_context |-> TRUE, save_instructions |-> TRUE]
\* variant: the mapping pass does not set the coverage field
MappingParamsKeepsCoverage(p) ==
    [p EXCEPT !.limit = 0, !.save_context = FALSE, !.save_instructions = FALSE]

MappingParams(p) ==
    [p EXCEPT !.limit = 0, !.coverage = "no",
              !.save_context = FALSE, !.save_instructions = FALSE]
ReplayParams(p) ==
    [p EXCEPT !.limit = 0, !.coverage = "instrs",
              !.save_context = FALSE, !.save_instructions = FALSE]

\* -------------------------------------------------- fingerprint (103-109)
HexDigits ==
    <<"0", "1", "2", "3", "4", "5", "6", "7", "8", "9", "a", "b", "c", "d", "e", "f">>

RECURSIVE ToHex(_)
ToHex(n) ==
    IF n < 16 THEN <<HexDigits[n + 1]>>
    ELSE Append(ToHex(n \div 16), HexDigits[(n % 16) + 1])

RECURSIVE ZeroPad(_, _)
ZeroPad(s, width) == IF Len(s) >= width THEN s ELSE ZeroPad(<<"0">> \o s, width)

\* F"{address:016x}"
FormatAddress(address) == ZeroPad(ToHex(address), 16)

\* variant: the head of the sequence, seq[:limit], instead of its tail
TailSliceHead(seq, limit) ==
    SubSeq(seq, 1, IF limit < Len(seq) THEN limit ELSE Len(seq))

\* seq[-limit:] with Python's slice rules: a negative start counts from the
\* end and is clipped at 0, a start of 0 or more is clipped at len(seq).
TailSliceStart(len, limit) ==
    IF -limit < 0
    THEN (IF len - limit < 0 THEN 0 ELSE len - limit)
    ELSE (IF -limit > len THEN len ELSE -limit)

TailSlice(seq, limit) == SubSeq(seq, TailSliceStart(Len(seq), limit) + 1, Len(seq))

\* m.update(bytes(data)) for every entry of the window, in order
RECURSIVE HashInput(_)
HashInput(window) ==
    IF window = <<>> THEN <<>>
    ELSE FormatAddress(window[1][1]) \o HashInput(Tail(window))

\* hashlib.sha1 ... hexdigest(): an ideal (collision-free) digest of the bytes fed
Sha1HexDigest(bytes) == [sha1 |-> bytes]

\* variant: the digest is taken before any entry is fed to it
FingerprintNoUpdate(coverage, limit) == Sha1HexDigest(<<>>)

Fingerprint(coverage, limit) == Sha1HexDigest(HashInput(TailSlice(coverage, limit)))

\* buckets[bucket].append(f) on a defaultdict(list); insertion order is kept
BucketIndex(bs, key) == {i \in 1..Len(bs) : bs[i].key = key}
BucketAppend(bs, key, f) ==
    IF BucketIndex(bs, key) = {}
    THEN Append(bs, [key |-> key, members |-> <<f>>])
    ELSE LET i == CHOOSE j \in BucketIndex(bs, key) : TRUE
         IN [bs EXCEPT ![i].members = Append(@, f)]

\* variant: a copy never overwrites, an existing destination gets a second name
CopyIntoNoOverwrite(tree, bucket, name, content) ==
    IF \E e \in tree : e[1] = bucket /\ e[2] = name
    THEN tree \cup {<<bucket, <<name[1], ".copy">>, content>>}
    ELSE tree \cup {<<bucket, name, content>>}

\* shutil.copy(src, bucket_path): creates or overwrites bucket_path/<name>
CopyInto(tree, bucket, name, content) ==
    {e \in tree : ~(e[1] = bucket /\ e[2] = name)} \cup {<<bucket, name, content>>}

\* ------------------------------------------------------------------- state
VARIABLES
    run,         \* number of the current triage run
    limit,       \* --limit of the current run
    pc,          \* position of the current run in cli()
    index,       \* loop position in files (gathering, then fingerprinting)
    context,     \* local variable context
    params,      \* local variable params (one record, mutated in place)
    trace,       \* local variable trace
    coverages,   \* local dict coverages
    buckets,     \* local defaultdict buckets
    bi, di,      \* materialization: bucket and member being copied
    backend,     \* state of the tracer's machine
    traces,      \* <output>/traces: artifact per crash
    bucketDirs,  \* <output>/buckets: directories
    bucketTree,  \* <output>/buckets: <<directory, file name, content>>
    ops,         \* tracer operations issued by the current run, in order
    missed,      \* crashes of the current run that took the else branch (54)
    error,       \* the exception that ended the current run
    writes,      \* files and directories the current run wrote under <output>
    prev         \* what the previous run left: status, limit, buckets, ...

vars == <<run, limit, pc, index, context, params, trace, coverages, buckets, bi, di,
          backend, traces, bucketDirs, bucketTree, ops, missed, error, writes, prev>>

\* prev: status and limit of the previous run, the crash whose pass raised in
\* it, and, when it ran to the end, its buckets and the tree it left
NoPrev ==
    [status |-> "none", limit |-> 0, failed |-> {}, buckets |-> <<>>, dirs |-> {}, tree |-> {}]

\* one tracer call, as logged in ops
NoArg == [context |-> "-", params |-> BaseParams, offset |-> <<"-", 0>>, data |-> <<"-", 0>>]
Op(name, f, arg) == [op |-> name, f |-> f, arg |-> arg]
OpSetContext(f, c) == Op("set_initial_context", f, [NoArg EXCEPT !.context = c])
OpRun(f, p) == Op("run", f, [NoArg EXCEPT !.params = p])
OpRestore(f) == Op("restore_snapshot", f, NoArg)
OpWrite(f, off, dat) == Op("write_virtual_memory", f, [NoArg EXCEPT !.offset = off, !.data = dat])

Init ==
    /\ run = 1
    /\ limit \in Limits
    /\ pc = "setup"
    /\ index = 1
    /\ context = "none"
    /\ params = BaseParams
    /\ trace = NoTrace
    /\ coverages = [f \in Files |-> NoCov]
    /\ buckets = <<>>
    /\ bi = 1
    /\ di = 1
    /\ backend = "reset"
    /\ traces = [f \in Files |-> Absent]
    /\ bucketDirs = {}
    /\ bucketTree = {}
    /\ ops = <<>>
    /\ missed = {}
    /\ error = NoError
    /\ writes = <<>>
    /\ prev = NoPrev


\* ----------------------------------------------------------------- helpers
CurrentFile == index

\* variant: the lookup tests a path that never exists
CacheExistsWrongPath(f) == FALSE

\* os.path.exists(coverage_path)
CacheExists(f) == traces[f] # Absent

\* json.load(fp) succeeds on a complete artifact only
Loadable(artifact) == artifact.state = "complete"
\* variant: the coverage path is built once, from the first file, so every
\* read returns the first crash's record
JsonLoadFirstArtifact(artifact) == [state |-> "loaded", coverage |-> traces[1].coverage]
JsonLoad(artifact) == [state |-> "loaded", coverage |-> artifact.coverage]

\* trace.save(path): the top-level object holds a coverage field
SaveJson(t) == [state |-> "complete", coverage |-> t.coverage]

\* tracer.run(params): the trace records instruction coverage when asked to
RunTrace(p, cov) ==
    [state |-> "trace", coverage |-> IF p.coverage = "instrs" THEN cov ELSE <<>>]

BinName(f) == <<f, ".bin">>
JsonName(f) == <<f, ".json">>

\* one write under <output>, as logged in writes: trace.save of a crash's
\* artifact, os.makedirs of a bucket directory, shutil.copy of a crash's file
Written(op, f, name) == [op |-> op, f |-> f, name |-> name]

\* an uncaught exception leaves cli()
Raise(kind, f, phase) ==
    /\ pc' = "aborted"
    /\ error' = [kind |-> kind, f |-> f, phase |-> phase]

\* variant: no barrier, fingerprinting and materialization start as soon as
\* one coverage record is held
StoreCoverageNoBarrier(f, coverage) ==
    /\ coverages' = [coverages EXCEPT ![f] = coverage]
    /\ index' = 1
    /\ pc' = "bucket"

\* coverages[f] = coverage, then the next iteration of the loop at 48
StoreCoverage(f, coverage) ==
    /\ coverages' = [coverages EXCEPT ![f] = coverage]
    /\ IF index < NumFiles
       THEN /\ index' = index + 1
            /\ pc' = "gather"
       ELSE /\ index' = 1
            /\ pc' = "bucket"

\* crashes the current run has called tracer.run for
Executed == {ops[i].f : i \in {j \in 1..Len(ops) : ops[j].op = "run"}}

\* crashes for which a tracer call of the current run raised
Failed == IF error.kind = "ExecutionError" THEN {error.f} ELSE {}

\* ------------------------------------------------------------------- setup
Setup ==
    /\ pc = "setup"
    /\ context' = "initial"
    /\ params' = BaseParams
    /\ pc' = "gather"
    /\ UNCHANGED <<run, limit, index, trace, coverages, buckets, bi, di, backend,
                   traces, bucketDirs, bucketTree, ops, missed, error, prev, writes>>

\* variant: the buckets directory is made only when gathering is over, and
\* making it can fail there
SetupFailAfterGathering ==
    /\ pc \in {"setup", "bucket"}
    /\ Raise("SetupError", 0, "setup")
    /\ UNCHANGED <<run, limit, index, context, params, trace, coverages, buckets, bi, di,
                   backend, traces, bucketDirs, bucketTree, ops, missed, prev, writes>>

SetupFail ==
    /\ pc = "setup"
    /\ Raise("SetupError", 0, "setup")
    /\ UNCHANGED <<run, limit, index, context, params, trace, coverages, buckets, bi, di,
                   backend, traces, bucketDirs, bucketTree, ops, missed, prev, writes>>

\* ------------------------------------------------------ gathering: lookup
\* variant: the store is outside the else branch, so a crash found in the
\* cache has its artifact stored again
LookupHitStoresAgain ==
    /\ pc = "gather"
    /\ CacheExists(CurrentFile)
    /\ Loadable(traces[CurrentFile])
    /\ StoreCoverage(CurrentFile, JsonLoad(traces[CurrentFile]))
    /\ traces' = [traces EXCEPT ![CurrentFile] = SaveJson(JsonLoad(traces[CurrentFile]))]
    /\ writes' = Append(writes, Written("save", CurrentFile, ".trace.json"))
    /\ UNCHANGED <<run, limit, context, params, trace, buckets, bi, di, backend,
                   bucketDirs, bucketTree, ops, missed, error, prev>>

LookupHit ==
    /\ pc = "gather"
    /\ CacheExists(CurrentFile)
    /\ Loadable(traces[CurrentFile])
    /\ StoreCoverage(CurrentFile, JsonLoad(traces[CurrentFile]))
    /\ UNCHANGED <<run, limit, context, params, trace, buckets, bi, di, backend,
                   traces, bucketDirs, bucketTree, ops, missed, error, prev, writes>>

LookupCorrupt ==
    /\ pc = "gather"
    /\ CacheExists(CurrentFile)
    /\ ~Loadable(traces[CurrentFile])
    /\ Raise("CacheCorrupt", CurrentFile, "lookup")
    /\ UNCHANGED <<run, limit, index, context, params, trace, coverages, buckets, bi, di,
                   backend, traces, bucketDirs, bucketTree, ops, missed, prev, writes>>

LookupMiss ==
    /\ pc = "gather"
    /\ ~CacheExists(CurrentFile)
    /\ missed' = missed \cup {CurrentFile}
    /\ pc' = "map_ctx"
    /\ UNCHANGED <<run, limit, index, context, params, trace, coverages, buckets, bi, di,
                   backend, traces, bucketDirs, bucketTree, ops, error, prev, writes>>

\* ------------------------------------------------ gathering: mapping pass
MapSetContext ==
    /\ pc = "map_ctx"
    /\ ops' = Append(ops, OpSetContext(CurrentFile, context))
    /\ backend' = "loaded"
    /\ params' = MappingParams(params)
    /\ pc' = "map_run"
    /\ UNCHANGED <<run, limit, index, context, trace, coverages, buckets, bi, di,
                   traces, bucketDirs, bucketTree, missed, error, prev, writes>>

MapRun ==
    /\ pc = "map_run"
    /\ ops' = Append(ops, OpRun(CurrentFile, params))
    /\ \E cov \in CovSeqs : trace' = RunTrace(params, cov)
    /\ backend' = "post_run"
    /\ pc' = "map_restore"
    /\ UNCHANGED <<run, limit, index, context, params, coverages, buckets, bi, di,
                   traces, bucketDirs, bucketTree, missed, error, prev, writes>>

MapRunFail ==
    /\ pc = "map_run"
    /\ ops' = Append(ops, OpRun(CurrentFile, params))
    /\ backend' \in {"loaded", "post_run"}
    /\ Raise("ExecutionError", CurrentFile, "mapping")
    /\ UNCHANGED <<run, limit, index, context, params, trace, coverages, buckets, bi, di,
                   traces, bucketDirs, bucketTree, missed, prev, writes>>

\* variant: the mapping pass is not followed by restore_snapshot
MapRestoreSkipped ==
    /\ pc = "map_restore"
    /\ pc' = "inject"
    /\ UNCHANGED <<run, limit, index, context, params, trace, coverages, buckets, bi, di,
                   backend, traces, bucketDirs, bucketTree, ops, missed, error, prev, writes>>

MapRestore ==
    /\ pc = "map_restore"
    /\ ops' = Append(ops, OpRestore(CurrentFile))
    /\ backend' = "reset"
    /\ pc' = "inject"
    /\ UNCHANGED <<run, limit, index, context, params, trace, coverages, buckets, bi, di,
                   traces, bucketDirs, bucketTree, missed, error, prev, writes>>

\* ------------------------------------------------------ gathering: inject
Inject ==
    /\ pc = "inject"
    /\ ops' = Append(ops, OpWrite(CurrentFile, InputOffset(CurrentFile), ReplayData(CurrentFile)))
    /\ backend' = "post_injection"
    /\ params' = ReplayParams(params)
    /\ pc' = "replay_ctx"
    /\ UNCHANGED <<run, limit, index, context, trace, coverages, buckets, bi, di,
                   traces, bucketDirs, bucketTree, missed, error, prev, writes>>

InjectFail ==
    /\ pc = "inject"
    /\ ops' = Append(ops, OpWrite(CurrentFile, InputOffset(CurrentFile), ReplayData(CurrentFile)))
    /\ backend' \in {"reset", "post_injection"}
    /\ Raise("ExecutionError", CurrentFile, "injection")
    /\ UNCHANGED <<run, limit, index, context, params, trace, coverages, buckets, bi, di,
                   traces, bucketDirs, bucketTree, missed, prev, writes>>

\* ------------------------------------------------- gathering: replay pass
ReplaySetContext ==
    /\ pc = "replay_ctx"
    /\ ops' = Append(ops, OpSetContext(CurrentFile, context))
    /\ backend' = "loaded"
    /\ pc' = "replay_run"
    /\ UNCHANGED <<run, limit, index, context, params, trace, coverages, buckets, bi, di,
                   traces, bucketDirs, bucketTree, missed, error, prev, writes>>

ReplayRun ==
    /\ pc = "replay_run"
    /\ ops' = Append(ops, OpRun(CurrentFile, params))
    /\ \E cov \in CovSeqs : trace' = RunTrace(params, cov)
    /\ backend' = "post_run"
    /\ pc' = "replay_restore"
    /\ UNCHANGED <<run, limit, index, context, params, coverages, buckets, bi, di,
                   traces, bucketDirs, bucketTree, missed, error, prev, writes>>

ReplayRunFail ==
    /\ pc = "replay_run"
    /\ ops' = Append(ops, OpRun(CurrentFile, params))
    /\ backend' \in {"loaded", "post_run"}
    /\ Raise("ExecutionError", CurrentFile, "replay")
    /\ UNCHANGED <<run, limit, index, context, params, trace, coverages, buckets, bi, di,
                   traces, bucketDirs, bucketTree, missed, prev, writes>>

ReplayRestore ==
    /\ pc = "replay_restore"
    /\ ops' = Append(ops, OpRestore(CurrentFile))
    /\ backend' = "reset"
    /\ pc' = "save"
    /\ UNCHANGED <<run, limit, index, context, params, trace, coverages, buckets, bi, di,
                   traces, bucketDirs, bucketTree, missed, error, prev, writes>>

\* ------------------------------------------- gathering: store and read back
\* trace.save(coverage_path) creates the file, then writes it
SaveBegin ==
    /\ pc = "save"
    /\ traces' = [traces EXCEPT ![CurrentFile] = Partial]
    /\ pc' = "saving"
    /\ writes' = Append(writes, Written("save", CurrentFile, ".trace.json"))
    /\ UNCHANGED <<run, limit, index, context, params, trace, coverages, buckets, bi, di,
                   backend, bucketDirs, bucketTree, ops, missed, error, prev>>

SaveEnd ==
    /\ pc = "saving"
    /\ traces' = [traces EXCEPT ![CurrentFile] = SaveJson(trace)]
    /\ pc' = "reload"
    /\ UNCHANGED <<run, limit, index, context, params, trace, coverages, buckets, bi, di,
                   backend, bucketDirs, bucketTree, ops, missed, error, prev, writes>>

\* the process is interrupted while the artifact is being written
Interrupt ==
    /\ pc = "saving"
    /\ pc' = "killed"
    /\ UNCHANGED <<run, limit, index, context, params, trace, coverages, buckets, bi, di,
                   backend, traces, bucketDirs, bucketTree, ops, missed, error, prev, writes>>

\* variant: the crash is fingerprinted inside the gathering loop, so the
\* fingerprint loop's variable rebinds context between two crashes
ReloadRebindsContext ==
    /\ pc = "reload"
    /\ Loadable(traces[CurrentFile])
    /\ StoreCoverage(CurrentFile, JsonLoad(traces[CurrentFile]))
    /\ context' = LET window == TailSlice(traces[CurrentFile].coverage, limit)
                  IN  IF window = <<>> THEN context ELSE window[Len(window)][2]
    /\ UNCHANGED <<run, limit, params, trace, buckets, bi, di, backend,
                   traces, bucketDirs, bucketTree, ops, missed, error, prev, writes>>

Reload ==
    /\ pc = "reload"
    /\ Loadable(traces[CurrentFile])
    /\ StoreCoverage(CurrentFile, JsonLoad(traces[CurrentFile]))
    /\ UNCHANGED <<run, limit, context, params, trace, buckets, bi, di, backend,
                   traces, bucketDirs, bucketTree, ops, missed, error, prev, writes>>


\* ---------------------------------------------------- fingerprinting loop
\* for (address, context) in ...: the loop variable rebinds the local context
LoopContext(window, c) == IF window = <<>> THEN c ELSE window[Len(window)][2]

BucketStep ==
    /\ pc = "bucket"
    /\ buckets' = BucketAppend(buckets,
                               Fingerprint(coverages[CurrentFile].coverage, limit),
                               CurrentFile)
    /\ context' = LoopContext(TailSlice(coverages[CurrentFile].coverage, limit), context)
    /\ IF index < NumFiles
       THEN /\ index' = index + 1
            /\ pc' = "bucket"
       ELSE /\ index' = 1
            /\ pc' = "mkdir"
    /\ UNCHANGED <<run, limit, params, trace, coverages, bi, di, backend,
                   traces, bucketDirs, bucketTree, ops, missed, error, prev, writes>>

\* --------------------------------------------------------- materialization
CurrentBucket == buckets[bi].key
CurrentMember == buckets[bi].members[di]

\* variant: a bucket directory that exists is emptied before the copies
MakeBucketDirEmptied ==
    /\ pc = "mkdir"
    /\ bucketDirs' = bucketDirs \cup {CurrentBucket}
    /\ bucketTree' = {e \in bucketTree : e[1] # CurrentBucket}
    /\ di' = 1
    /\ pc' = "copy_bin"
    /\ writes' = Append(writes, Written("mkdir", 0, "-"))
    /\ UNCHANGED <<run, limit, index, context, params, trace, coverages, buckets, bi,
                   backend, traces, ops, missed, error, prev>>

MakeBucketDir ==
    /\ pc = "mkdir"
    /\ bucketDirs' = bucketDirs \cup {CurrentBucket}
    /\ di' = 1
    /\ pc' = "copy_bin"
    /\ writes' = Append(writes, Written("mkdir", 0, "-"))
    /\ UNCHANGED <<run, limit, index, context, params, trace, coverages, buckets, bi,
                   backend, traces, bucketTree, ops, missed, error, prev>>

CopyBin ==
    /\ pc = "copy_bin"
    /\ bucketTree' = CopyInto(bucketTree, CurrentBucket, BinName(CurrentMember),
                              ReplayData(CurrentMember))
    /\ pc' = "copy_json"
    /\ writes' = Append(writes, Written("copy", CurrentMember, ".bin"))
    /\ UNCHANGED <<run, limit, index, context, params, trace, coverages, buckets, bi, di,
                   backend, traces, bucketDirs, ops, missed, error, prev>>

CopyJson ==
    /\ pc = "copy_json"
    /\ bucketTree' = CopyInto(bucketTree, CurrentBucket, JsonName(CurrentMember),
                              MetaData(CurrentMember))
    /\ IF di < Len(buckets[bi].members)
       THEN /\ di' = di + 1
            /\ bi' = bi
            /\ pc' = "copy_bin"
       ELSE IF bi < Len(buckets)
       THEN /\ di' = 1
            /\ bi' = bi + 1
            /\ pc' = "mkdir"
       ELSE /\ di' = di
            /\ bi' = bi
            /\ pc' = "done"
    /\ writes' = Append(writes, Written("copy", CurrentMember, ".json"))
    /\ UNCHANGED <<run, limit, index, context, params, trace, coverages, buckets,
                   backend, traces, bucketDirs, ops, missed, error, prev>>

\* shutil.copy raises (source unreadable, destination unwritable)
CopyFail ==
    /\ pc \in {"copy_bin", "copy_json"}
    /\ Raise("CopyError", CurrentMember, pc)
    /\ UNCHANGED <<run, limit, index, context, params, trace, coverages, buckets, bi, di,
                   backend, traces, bucketDirs, bucketTree, ops, missed, prev, writes>>

\* ------------------------------------------------------------ the next run
RunEnded == pc \in {"done", "aborted", "killed"}

\* cli() is invoked again on the same crashes and output directories
StartRun ==
    /\ RunEnded
    /\ run < MaxRuns
    /\ run' = run + 1
    /\ limit' \in Limits
    /\ prev' = [status |-> pc, limit |-> limit, failed |-> Failed,
                buckets |-> IF pc = "done" THEN buckets ELSE <<>>,
                dirs |-> IF pc = "done" THEN bucketDirs ELSE {},
                tree |-> IF pc = "done" THEN bucketTree ELSE {}]
    /\ pc' = "setup"
    /\ index' = 1
    /\ context' = "none"
    /\ params' = BaseParams
    /\ trace' = NoTrace
    /\ coverages' = [f \in Files |-> NoCov]
    /\ buckets' = <<>>
    /\ bi' = 1
    /\ di' = 1
    /\ backend' = "reset"
    /\ ops' = <<>>
    /\ missed' = {}
    /\ error' = NoError
    /\ writes' = <<>>
    /\ UNCHANGED <<traces, bucketDirs, bucketTree>>

Next ==
    \/ Setup \/ SetupFail
    \/ LookupHit \/ LookupCorrupt \/ LookupMiss
    \/ MapSetContext \/ MapRun \/ MapRunFail \/ MapRestore
    \/ Inject \/ InjectFail
    \/ ReplaySetContext \/ ReplayRun \/ ReplayRunFail \/ ReplayRestore
    \/ SaveBegin \/ SaveEnd \/ Interrupt \/ Reload
    \/ BucketStep
    \/ MakeBucketDir \/ CopyBin \/ CopyJson \/ CopyFail
    \/ StartRun

Spec == Init /\ [][Next]_vars

\* Fingerprinting and materialization alone, from the state a run is in when
\* the gathering loop has found a complete artifact for every crash (all
\* cache hits), over longer coverage sequences than Spec's replays return.
InitFP ==
    /\ run = 1
    /\ limit \in 0..FpMaxLimit
    /\ pc = "bucket"
    /\ index = 1
    /\ context = "initial"
    /\ params = BaseParams
    /\ trace = NoTrace
    /\ traces \in [Files -> {[state |-> "complete", coverage |-> c] : c \in CovSeqsOver(Addrs, FpMaxCov)}]
    /\ coverages = [f \in Files |-> JsonLoad(traces[f])]
    /\ buckets = <<>>
    /\ bi = 1
    /\ di = 1
    /\ backend = "reset"
    /\ bucketDirs = {}
    /\ bucketTree = {}
    /\ ops = <<>>
    /\ missed = {}
    /\ error = NoError
    /\ writes = <<>>
    /\ prev = NoPrev

NextFP == BucketStep \/ MakeBucketDir \/ CopyBin \/ CopyJson \/ CopyFail

SpecFP == InitFP /\ [][NextFP]_vars


\* ================================================================ properties
\* ----------------------------------------------------------- shared notions
OpsOf(f) == SelectSeq(ops, LAMBDA o : o.f = f)
OpNames(seq) == [i \in 1..Len(seq) |-> seq[i].op]
IsPrefix(s, t) == Len(s) <= Len(t) /\ SubSeq(t, 1, Len(s)) = s

\* load context, mapping run, reset, write, load context, replay run, reset
ProtocolOps ==
    <<"set_initial_context", "run", "restore_snapshot", "write_virtual_memory",
      "set_initial_context", "run", "restore_snapshot">>

\* coverages[f] has been assigned (line 99): the crash's iteration completed
Gathered(f) == coverages[f].state = "loaded"

\* the crash's iteration is over: completed, or left by an exception
ProcessingEnded(f) == Gathered(f) \/ f \in Failed

\* no operation of another crash between two operations of one crash: the
\* operations come crash by crash, in the order of the file list
NoInterleaving == \A i \in 1..(Len(ops) - 1) : ops[i].f <= ops[i + 1].f

\* every memory write carries the crash's bytes and its metadata offset
WritesCrashBytes ==
    \A i \in 1..Len(ops) :
        ops[i].op = "write_virtual_memory" =>
            /\ ops[i].arg.offset = InputOffset(ops[i].f)
            /\ ops[i].arg.data = ReplayData(ops[i].f)

Range(seq) == {seq[i] : i \in 1..Len(seq)}
BucketsOf(f) == {i \in 1..Len(buckets) : f \in Range(buckets[i].members)}
Members == UNION {Range(buckets[i].members) : i \in 1..Len(buckets)}
\* every bucketed crash is held once, by one bucket
EachInOneBucket ==
    \A f \in Members :
        /\ Cardinality(BucketsOf(f)) = 1
        /\ \A i \in BucketsOf(f) :
               Cardinality({j \in 1..Len(buckets[i].members) : buckets[i].members[j] = f}) = 1

\* -------------------------------------------------------------------- C1
\* C1 as stated: every crash that missed the cache and whose processing has
\* ended was given exactly the seven protocol operations, in order.
C1_ExactProtocolForEveryMiss ==
    \A f \in missed : ProcessingEnded(f) => OpNames(OpsOf(f)) = ProtocolOps

\* C1 (amended): the operations issued for a crash that missed the cache are
\* always a prefix of the protocol sequence: all seven once the crash's
\* iteration completes, and cut right after the run or write that raised
\* when one raises.  The write carries the crash's bytes and offset, crashes
\* that hit the cache get no operation, and the operations of two crashes
\* are never interleaved.
C1_ProtocolOrder ==
    /\ \A f \in missed :
           LET issued == OpNames(OpsOf(f))
           IN  /\ IsPrefix(issued, ProtocolOps)
               /\ Gathered(f) => issued = ProtocolOps
               /\ f \in Failed =>
                      /\ issued # <<>>
                      /\ issued[Len(issued)] \in {"run", "write_virtual_memory"}
    /\ \A f \in Files \ missed : OpsOf(f) = <<>>
    /\ WritesCrashBytes
    /\ NoInterleaving

\* two crashes went through the whole protocol one after the other
C1_Witness ==
    /\ pc = "done"
    /\ missed = Files
    /\ Len(ops) = Len(ProtocolOps) * NumFiles
    /\ \A f \in Files : OpNames(OpsOf(f)) = ProtocolOps

\* -------------------------------------------------------------------- C2
\* C2: a tracer call raising for one crash does not abort the run; when the
\* run ends, every other crash has been bucketed and the failed one has not.
C2_ReplayFailureNotFatal ==
    Failed # {} =>
        /\ pc # "aborted"
        /\ pc = "done" => Members = Files \ Failed

\* -------------------------------------------------------------------- C3
\* C3: outside the seven protocol operations of a crash (before the first
\* crash, between crashes, after the last, and after an exception ended a
\* crash's processing) the backend is in its reset state.
InProtocol ==
    pc \in {"map_ctx", "map_run", "map_restore", "inject",
            "replay_ctx", "replay_run", "replay_restore"}

C3_BackendResetWhenCrashEnds == ~InProtocol => backend = "reset"

\* -------------------------------------------------------------------- C4
\* C4: an artifact that does not deserialize is handled as a cache miss: the
\* lookup that meets it does not end the run with the deserialization error,
\* it sends the crash through the replay (the crash is among the misses).
LookupMetCorrupt(f) == error.kind = "CacheCorrupt" /\ error.f = f

C4_CorruptArtifactIsAMiss ==
    \A f \in Files : LookupMetCorrupt(f) => (pc # "aborted" /\ f \in missed)

\* -------------------------------------------------------------------- C5
\* the run follows a run that went to its end, with the same --limit
RerunOfCompletedRun == run > 1 /\ prev.status = "done" /\ prev.limit = limit

C6_RetryOnlyFailed ==
    /\ (run > 1 /\ prev.failed # {} /\ pc = "done") => Executed = prev.failed
    /\ \A f \in Files : (CacheExists(f) /\ f \in missed) =>
           Len(OpsOf(f)) = Len(ProtocolOps)

\* -------------------------------------------------------------------- C7
\* C7: when a run has ended, at its last line or on a failed replay, every
\* input crash but the failed ones is held by exactly one bucket, once.
C7_BucketsPartitionInput ==
    (pc = "done" \/ (pc = "aborted" /\ Failed # {})) =>
        /\ Members = Files \ Failed
        /\ EachInOneBucket

\* -------------------------------------------------------------------- C8
Cov(f) == coverages[f].coverage
LastN(seq, n) == SubSeq(seq, Len(seq) - n + 1, Len(seq))
\* the bucket key a fingerprinted crash was filed under
KeyOf(f) == buckets[CHOOSE i \in BucketsOf(f) : TRUE].key
\* the digest of the hexadecimal text of every entry of a sequence
DigestOfAll(seq) == Sha1HexDigest(HashInput(seq))

\* g is f's sequence with entries put before it that f does not start with
LongerWithSameTail(f, g, n) ==
    /\ Len(Cov(f)) = n
    /\ Len(Cov(g)) > n
    /\ LastN(Cov(g), n) = Cov(f)

\* C8: with a limit N >= 1, a fingerprinted crash whose coverage has fewer
\* than N entries is filed under the digest of all its entries, and two
\* fingerprinted crashes, one with exactly N entries and one with more whose
\* last N entries are the same in order, are filed in the same bucket.
C8_TailWindowBoundary ==
    limit >= 1 =>
        \A f \in Members :
            /\ Len(Cov(f)) < limit => KeyOf(f) = DigestOfAll(Cov(f))
            /\ \A g \in Members :
                   LongerWithSameTail(f, g, limit) =>
                       /\ KeyOf(f) = KeyOf(g)
                       /\ BucketsOf(f) = BucketsOf(g)

\* a crash with exactly N entries and a longer one that differs from it
\* before the last N have been filed in the same bucket
C8_Witness ==
    /\ limit >= 1
    /\ pc = "done"
    /\ \E f, g \in Members :
           /\ LongerWithSameTail(f, g, limit)
           /\ Cov(g)[1] # Cov(f)[1]
           /\ BucketsOf(f) = BucketsOf(g)

\* -------------------------------------------------------------------- C9
\* C9: a crash with an empty coverage sequence is fingerprinted (the loop
\* does not stop on it) and filed under the digest of no bytes; all such
\* crashes share one bucket, and no crash with a non-empty window is in it.
C9_EmptyCoverageBucket ==
    /\ pc = "bucket" => ENABLED BucketStep
    /\ \A f \in Members :
           Cov(f) = <<>> =>
               /\ KeyOf(f) = Sha1HexDigest(<<>>)
               /\ \A g \in Members :
                      /\ Cov(g) = <<>> => BucketsOf(g) = BucketsOf(f)
                      /\ TailSlice(Cov(g), limit) # <<>> =>
                             /\ BucketsOf(g) # BucketsOf(f)
                             /\ KeyOf(g) # KeyOf(f)

\* a zero-coverage crash filed under the digest of no bytes, another crash
\* with a non-empty window filed in another bucket
C9_Witness ==
    /\ pc = "done"
    /\ \E f, g \in Members :
           /\ f # g
           /\ Cov(f) = <<>>
           /\ Cov(g) # <<>>
           /\ KeyOf(f) = Sha1HexDigest(<<>>)
           /\ BucketsOf(f) # BucketsOf(g)

\* ------------------------------------------------------------------- C10
\* C10: a run that follows a completed run on the same crashes directory,
\* output directory and limit never changes the buckets tree: at every point
\* of it, and so when it ends, the bucket directories, their member files and
\* the files' contents are those the first run left.
C10_RerunLeavesTreeIdentical ==
    RerunOfCompletedRun =>
        /\ bucketDirs = prev.dirs
        /\ bucketTree = prev.tree

\* a second run went to its end over a tree holding two bucket directories
C10_Witness ==
    /\ RerunOfCompletedRun
    /\ pc = "done"
    /\ Cardinality(bucketDirs) = 2
    /\ Cardinality(bucketTree) = 2 * NumFiles
    /\ bucketTree = prev.tree

\* ------------------------------------------------------------------- C11
\* the files materialization sets out to copy: the input and the metadata
\* file of every member of every bucket, into the bucket's directory
MemberFiles ==
    UNION {UNION {{<<buckets[i].key, BinName(f), ReplayData(f)>>,
                   <<buckets[i].key, JsonName(f), MetaData(f)>>} :
                  f \in Range(buckets[i].members)} :
           i \in 1..Len(buckets)}

\* the file whose shutil.copy raised
FailedCopy ==
    IF error.phase = "copy_bin"
    THEN <<CurrentBucket, BinName(error.f), ReplayData(error.f)>>
    ELSE <<CurrentBucket, JsonName(error.f), MetaData(error.f)>>

\* C11: a copy that raises for one member's input or metadata file does not
\* abort materialization: the run does not end on it, and when the run is over
\* every other file of every member of every bucket is in its directory.
C11_CopyFailureNotFatal ==
    error.kind = "CopyError" =>
        /\ pc # "aborted"
        /\ RunEnded => (MemberFiles \ {FailedCopy}) \subseteq bucketTree

\* ------------------------------------------------------------------- C12
\* C12: the lookup never deserializes a partially written artifact: whenever
\* the lookup is about to test a crash's artifact path, it finds either no
\* artifact (and replays the crash) or the complete record, also after a run
\* that was interrupted while storing that artifact.
C12_LookupFindsNothingOrComplete ==
    (pc = "gather" /\ CacheExists(CurrentFile)) => Loadable(traces[CurrentFile])

\* ------------------------------------------------------------------- C13
\* C13: a run ended by a setup failure (snapshot source, initial context or
\* parameters, output directories) ended before any crash was processed: it
\* issued no backend operation (no run, no memory write), stored no trace,
\* created no bucket directory and copied no file, looked no crash up and
\* fingerprinted none.
C13_SetupFailureBeforeAnyCrash ==
    error.kind = "SetupError" =>
        /\ pc = "aborted"
        /\ ops = <<>>
        /\ writes = <<>>
        /\ missed = {}
        /\ buckets = <<>>
        /\ \A f \in Files : ~Gathered(f)

\* a run after a run that had stored an artifact was ended by a setup
\* failure, having issued and written nothing
C13_Witness ==
    /\ run > 1
    /\ error.kind = "SetupError"
    /\ \E f \in Files : CacheExists(f)
    /\ ops = <<>>
    /\ writes = <<>>

\* ------------------------------------------------------------------- C14
\* tracer.run calls and trace.save calls the current run made for a crash
RunsFor(f) == Len(SelectSeq(ops, LAMBDA o : o.op = "run" /\ o.f = f))
StoresFor(f) == Len(SelectSeq(writes, LAMBDA w : w.op = "save" /\ w.f = f))

\* the store is invoked at most once per crash, only for a crash that had no
\* artifact at lookup, and a crash found in the cache causes no run, no store
StoreOnlyOnMiss ==
    /\ \A f \in Files : StoresFor(f) <= 1 /\ (StoresFor(f) = 1 => f \in missed)
    /\ \A f \in Files \ missed : RunsFor(f) = 0 /\ StoresFor(f) = 0

\* C14 as stated: with the above, every crash that missed the cache and whose
\* processing has ended caused exactly two backend runs and one store.
C14_ExactlyTwoRunsOneStore ==
    /\ StoreOnlyOnMiss
    /\ \A f \in missed : ProcessingEnded(f) => (RunsFor(f) = 2 /\ StoresFor(f) = 1)

\* a step changes a crash's artifact only while storing it, for the crash in
\* hand, which had no artifact at lookup
ArtifactFrame ==
    \A f \in Files :
        traces'[f] # traces[f] =>
            /\ f \in missed
            /\ f = CurrentFile
            /\ pc \in {"save", "saving"}

\* C14 (amended): within one run the store is invoked at most once per crash
\* and only for a crash that had no artifact at lookup; an artifact is changed
\* only by that store, so one that exists at lookup is never overwritten or
\* modified.  A crash that missed the cache causes at most two backend runs:
\* exactly two and one store when its iteration completes, one or two and no
\* store when a tracer call raises for it.  A crash found in the cache causes
\* no run and no store.
C14_StoreOnlyOnMissOnce ==
    /\ [](/\ StoreOnlyOnMiss
          /\ \A f \in missed :
                 /\ RunsFor(f) <= 2
                 /\ Gathered(f) => (RunsFor(f) = 2 /\ StoresFor(f) = 1)
                 /\ f \in Failed => (RunsFor(f) \in {1, 2} /\ StoresFor(f) = 0))
    /\ [][ArtifactFrame]_vars

\* a run went to its end with one crash taken from the cache, its artifact
\* being the one a previous run stored, and one crash replayed and stored
C14_Witness ==
    /\ pc = "done"
    /\ run > 1
    /\ \E f, g \in Files :
           /\ f \notin missed /\ RunsFor(f) = 0 /\ StoresFor(f) = 0
           /\ g \in missed /\ RunsFor(g) = 2 /\ StoresFor(g) = 1

\* ------------------------------------------------------------------- C15
\* the parameter records the current run handed to tracer.run for a crash
RunParams(f) ==
    LET runs == SelectSeq(ops, LAMBDA o : o.op = "run" /\ o.f = f)
    IN  [i \in 1..Len(runs) |-> runs[i].arg.params]

\* the two variants: coverage disabled, and instruction-level coverage; both
\* with limit zero and the saving of context and instructions disabled
MappingVariant ==
    [limit |-> 0, coverage |-> "no", save_context |-> FALSE, save_instructions |-> FALSE]
ReplayVariant ==
    [limit |-> 0, coverage |-> "instrs", save_context |-> FALSE, save_instructions |-> FALSE]

\* C15: at every backend run the shared parameter record is the variant of
\* that run: the first run of a crash (mapping) has coverage disabled, the
\* second (replay) has instruction-level coverage, both have limit zero and
\* saving disabled; so the mapping run of a crash never carries the coverage
\* setting the replay of the crash before it left in the record.
C15_ParamsVariantAtEveryRun ==
    /\ \A f \in Files : IsPrefix(RunParams(f), <<MappingVariant, ReplayVariant>>)
    /\ pc = "map_run" => params = MappingVariant
    /\ pc = "replay_run" => params = ReplayVariant

\* the second crash has been run for mapping with coverage disabled, right
\* after the first crash was replayed with instruction-level coverage
C15_Witness ==
    /\ pc = "map_restore"
    /\ CurrentFile = 2
    /\ RunParams(1) = <<MappingVariant, ReplayVariant>>
    /\ RunParams(2) = <<MappingVariant>>
    /\ ops[Len(ops) - 3].arg.params.coverage = "instrs"
    /\ ops[Len(ops)].arg.params.coverage = "no"

\* ------------------------------------------------------------------- C16
\* the Execution Contexts the current run loaded into the tracer
LoadedContexts ==
    {ops[i].arg.context : i \in {j \in 1..Len(ops) : ops[j].op = "set_initial_context"}}

\* C16: the Execution Context loaded before every mapping and replay run is
\* the one obtained from the snapshot at start; the fingerprint loop's
\* variable rebinds the local that holds it only when coverage has been
\* gathered for every crash, that is after the last replay.
C16_InitialContextAtEveryLoad ==
    /\ LoadedContexts \subseteq {"initial"}
    /\ pc \in {"map_ctx", "replay_ctx"} => context = "initial"
    /\ context \notin {"none", "initial"} => \A f \in Files : Gathered(f)

\* a run replayed every crash with the initial context loaded four times,
\* and its fingerprint loop then rebound the local to a context of a trace
C16_Witness ==
    /\ pc = "done"
    /\ missed = Files
    /\ LoadedContexts = {"initial"}
    /\ Len(SelectSeq(ops, LAMBDA o : o.op = "set_initial_context")) = 2 * NumFiles
    /\ context = "trace_ctx"

\* ------------------------------------------------------------------- C17
\* C17: with --limit 0 the window of every coverage sequence is empty, so
\* every fingerprinted crash is filed under the digest of no bytes and all
\* crashes are in one bucket.
C17_LimitZeroOneBucket ==
    limit = 0 =>
        /\ \A f \in Members :
               /\ TailSlice(Cov(f), limit) = <<>>
               /\ KeyOf(f) = Sha1HexDigest(<<>>)
        /\ Len(buckets) <= 1

\* ------------------------------------------------------------------- C18
\* the current run has created a bucket directory or copied a file into one
Materializing ==
    \/ pc \in {"mkdir", "copy_bin", "copy_json", "done"}
    \/ \E i \in 1..Len(writes) : writes[i].op \in {"mkdir", "copy"}

\* C18: gathering and bucketing are separated by a barrier: a run fingerprints
\* a crash, creates a bucket directory or copies a file into one only when a
\* coverage record has been obtained for every crash, and after its last
\* store; so a run whose gathering stopped at some crash has written no
\* bucket directory and no bucket file at all.
C18_GatheringBeforeBucketing ==
    /\ (Materializing \/ buckets # <<>>) => \A f \in Files : Gathered(f)
    /\ \A i, j \in 1..Len(writes) : (i < j /\ writes[j].op = "save") => writes[i].op = "save"
    /\ (RunEnded /\ \E f \in Files : ~Gathered(f)) =>
           \A i \in 1..Len(writes) : writes[i].op = "save"

\* gathering stopped at the second crash after the first crash's coverage was
\* stored and read back: nothing was written under buckets/
C18_Witness ==
    /\ pc = "aborted"
    /\ Gathered(1)
    /\ error.kind = "ExecutionError" /\ error.f = 2
    /\ writes = <<Written("save", 1, ".trace.json")>>
    /\ bucketDirs = {}
    /\ bucketTree = {}

\* ------------------------------------------------------------------- C19
\* the bucket key the previous run filed a crash under
PrevKeyOf(f) ==
    prev.buckets[CHOOSE i \in 1..Len(prev.buckets) : f \in Range(prev.buckets[i].members)].key

\* C19: the coverage record held for a crash, whether the run found the
\* artifact or created it, equals the coverage persisted in the crash's
\* artifact, so every crash is filed under the fingerprint of its persisted
\* coverage; and a run that follows a completed run with the same limit files
\* every crash under the key the earlier run filed it under.
C19_FingerprintOfPersistedCoverage ==
    /\ \A f \in Files :
           Gathered(f) => (traces[f].state = "complete" /\ Cov(f) = traces[f].coverage)
    /\ \A f \in Members : KeyOf(f) = Fingerprint(traces[f].coverage, limit)
    /\ RerunOfCompletedRun => \A f \in Members : KeyOf(f) = PrevKeyOf(f)

\* a run created two artifacts with different coverage; the next run, with
\* the same limit, read both from the cache and filed each crash under the
\* key of the run that created them
C19_Witness ==
    /\ RerunOfCompletedRun
    /\ pc = "done"
    /\ missed = {}
    /\ traces[1].coverage # traces[2].coverage
    /\ \A f \in Files : Cov(f) = traces[f].coverage /\ KeyOf(f) = PrevKeyOf(f)
    /\ KeyOf(1) # KeyOf(2)

\* ------------------------------------------------------------------- C20
\* the (bucket directory, file name) pairs present under buckets/
Pairs(tree) == {<<e[1], e[2]>> : e \in tree}

\* no step removes a bucket directory or a file of one
TreeOnlyGrows ==
    /\ bucketDirs \subseteq bucketDirs'
    /\ Pairs(bucketTree) \subseteq Pairs(bucketTree')

\* C20: materialization only adds: no step of any run removes a bucket
\* directory or a (bucket, file) pair, so whatever a completed earlier run
\* left under buckets/ is still there at every point of the next run; and
\* when that run ends, every crash's files are in the directory of the bucket
\* it was filed under now, also when a different limit changed its
\* fingerprint, in which case the copies in the old directory remain too.
C20_MaterializationAdditive ==
    /\ [][TreeOnlyGrows]_vars
    /\ [](/\ (run > 1 /\ prev.status = "done") =>
                 /\ prev.dirs \subseteq bucketDirs
                 /\ Pairs(prev.tree) \subseteq Pairs(bucketTree)
          /\ pc = "done" => MemberFiles \subseteq bucketTree)

\* a re-run with another limit filed a crash under another fingerprint: the
\* crash's two files are in the old bucket directory and in the new one
C20_Witness ==
    /\ run > 1
    /\ prev.status = "done"
    /\ prev.limit # limit
    /\ pc = "done"
    /\ \E f \in Files :
           /\ KeyOf(f) # PrevKeyOf(f)
           /\ {<<PrevKeyOf(f), BinName(f)>>, <<PrevKeyOf(f), JsonName(f)>>,
               <<KeyOf(f), BinName(f)>>, <<KeyOf(f), JsonName(f)>>} \subseteq Pairs(bucketTree)
           /\ {PrevKeyOf(f), KeyOf(f)} \subseteq bucketDirs

====
